---- MODULE Spec2Model ----
(***************************************************************************)
(* State-machine model of the YaMDb REST API (api_yamdb): the user store,  *)
(* the catalog (Category, Genre, Title), the feedback entities (Review,    *)
(* Comment), the DRF permission classes, the rating aggregation and the    *)
(* signup / token flow.  Every HTTP handler is one action; the review POST *)
(* is also available as its two non-atomic steps (validation, write) for   *)
(* the properties about concurrent requests.                               *)
(***************************************************************************)
EXTENDS Integers, FiniteSets, Sequences, Bags, TLC

VARIABLES
    users,       \* User table: pk -> row
    categories,  \* Category table: set of rows [name, slug]
    genres,      \* Genre table: set of rows [name, slug]
    titles,      \* Title table: pk -> row
    reviews,     \* Review table: pk -> row
    comments,    \* Comment table: pk -> row
    pend,        \* bag of POSTs that passed is_valid() and have not yet
                 \* saved
    codes,       \* confirmation codes mailed -> whether a token was minted
                 \* with it
    nextId,      \* auto-increment primary keys, one per table
    resp         \* the last request served and its response (status 0
                 \* while the request is between its two steps)

vars == <<users, categories, genres, titles, reviews, comments, pend, codes,
          nextId, resp>>

----------------------------------------------------------------------------
(* Bounds of the model *)

MaxUserId == 2
MaxTitleId == 1
MaxReviewId == 2
MaxCommentId == 1
MaxInFlight == 2
MaxCodes == 2

----------------------------------------------------------------------------
(* utils/constants.py *)

MIN_SCORE == 1
MAX_SCORE == 10
FORBIDDEN_USERNAME == "me"

----------------------------------------------------------------------------
(* users/models.py *)

USER == "user"
MODERATOR == "moderator"
ADMIN == "admin"
Roles == {USER, MODERATOR, ADMIN}

\* request.user of a request without credentials (AnonymousUser)
Anon == 0

\* a row of the User table as Django creates it when only username and email
\* are given: role defaults to USER, AbstractUser.is_active defaults to True
NewUser(username, email) ==
    [username |-> username, email |-> email, role |-> USER,
     is_superuser |-> FALSE, is_active |-> TRUE]

is_admin(u) == users[u].role = ADMIN \/ users[u].is_superuser

is_moderator(u) == users[u].role = MODERATOR

is_authenticated(u) == u # Anon

\* the identities a request can carry: nobody, or an existing active user
Requesters == {Anon} \cup {u \in DOMAIN users : users[u].is_active}

----------------------------------------------------------------------------
(* api/permissions.py and the rest_framework permission classes the views  *)
(* name                                                                    *)

SAFE_METHODS == {"GET", "HEAD", "OPTIONS"}

IsAdmin(u) == is_authenticated(u) /\ is_admin(u)

IsAuthenticated(u) == is_authenticated(u)

IsAuthenticatedOrReadOnly(method, u) ==
    method \in SAFE_METHODS \/ is_authenticated(u)

\* has_permission that only asks for a logged-in user
IsAuthenticatedUserOrReadOnly(method, u) ==
    method \in SAFE_METHODS \/ is_authenticated(u)

IsAdminUserOrReadOnly(method, u) ==
    method \in SAFE_METHODS \/ (is_authenticated(u) /\ is_admin(u))

\* has_object_permission that forgets the object: every write passes
AnyWriterPermission(method, u, obj) == "allow"

\* has_object_permission: AnonymousUser has no attribute is_admin, so the
\* third disjunct raises when it is reached by an anonymous requester
AdminModeratorAuthorPermission(method, u, obj) ==
    IF method \in SAFE_METHODS THEN "allow"
    ELSE IF obj.author = u THEN "allow"
    ELSE IF u = Anon THEN "raise"
    ELSE IF is_admin(u) \/ is_moderator(u) THEN "allow"
    ELSE "deny"

\* An error response: its status and the key its body is filed under
Err(status, key) == [status |-> status, key |-> key]

\* no error: the handler goes on
Ok == Err(0, "-")

\* APIView.permission_denied: 401 for a request without credentials, else 403
Denied(u) == Err(IF is_authenticated(u) THEN 403 ELSE 401, "detail")

\* get_object_or_404 that found nothing
NotFound == Err(404, "detail")

\* an exception no handler catches
ServerError == Err(500, "-")

\* APIView.http_method_not_allowed
MethodNotAllowed == Err(405, "detail")

\* http_method_names with put left in, as ModelViewSet has it
AllMethodNames == {"get", "post", "put", "patch", "delete"}

\* http_method_names of TitleViewSet, ReviewViewSet and CommentViewSet.
\* APIView.dispatch runs initial() (authentication, has_permission) first
\* and then picks the handler: http_method_not_allowed for a method that is
\* not in the list
http_method_names == {"get", "post", "patch", "delete"}

\* what a permission method hands back to its caller
Verdict(b) == IF b THEN "allow" ELSE "deny"

----------------------------------------------------------------------------
(* Requests and responses *)

None == [null |-> TRUE, value |-> 0]

\* timezone.now() at the time of the requests: what auto_now_add stores in
\* pub_date when a review or a comment is inserted, whatever value the
\* caller passed for it
Now == 1

\* a request (operation, requester, path identifiers, body) with the
\* response it got
Request(op, u, path, body) ==
    [op |-> op, user |-> u, path |-> path, body |-> body]

Response(rq, status, out) ==
    [op |-> rq.op, user |-> rq.user, path |-> rq.path, body |-> rq.body,
     status |-> status, out |-> out]

----------------------------------------------------------------------------
(* Rating aggregation: api/views.py TitleViewSet.queryset and              *)
(* api/serializers.py TitleReadSerializer.rating                           *)

ReviewsOf(t) == {r \in DOMAIN reviews : reviews[r].title = t}

RECURSIVE SumScores(_)
SumScores(rs) ==
    IF rs = {} THEN 0
    ELSE LET r == CHOOSE x \in rs : TRUE
         IN  reviews[r].score + SumScores(rs \ {r})

\* Avg('reviews__score'): NULL over no rows, else the quotient sum / count,
\* kept exact as the pair of its numerator and denominator
Avg(t) ==
    IF ReviewsOf(t) = {} THEN [null |-> TRUE, num |-> 0, den |-> 1]
    ELSE [null |-> FALSE, num |-> SumScores(ReviewsOf(t)),
          den |-> Cardinality(ReviewsOf(t))]

\* Serializer.to_representation writes None for an attribute that is None
\* (the field's default is not consulted: the annotation is always present);
\* IntegerField.to_representation is int(value), which truncates
Rating(t) ==
    IF Avg(t).null THEN None
    ELSE [null |-> FALSE, value |-> Avg(t).num \div Avg(t).den]

----------------------------------------------------------------------------
(* Review endpoints: api/views.py ReviewViewSet, api/serializers.py        *)
(* ReviewSerializer, reviews/models.py Review                              *)

\* a check of the upper bound alone
validate_score_NoFloor(value) == value <= MAX_SCORE

validate_score(value) == MIN_SCORE <= value /\ value <= MAX_SCORE

\* UniqueConstraint(fields=('title', 'author'), name='unique review')
UniqueReview(t, a) ==
    ~ \E r \in DOMAIN reviews : reviews[r].title = t /\ reviews[r].author = a

\* validate without the lookup of an existing review
validate_NoLookup(method, u, t) ==
    IF t \notin DOMAIN titles THEN NotFound ELSE Ok

\* ReviewSerializer.validate, after the field validators: the error it raises
\* (the Django ValidationError is turned into a 400 by run_validation)
ReviewSerializer_validate(method, u, t) ==
    IF t \notin DOMAIN titles THEN NotFound
    ELSE IF method = "POST" /\ ~ UniqueReview(t, u)
    THEN Err(400, "non_field_errors")
    ELSE Ok

\* Meta.fields of ReviewSerializer and of CommentSerializer
ReviewFields == {"id", "text", "author", "score", "pub_date"}

CommentFields == {"id", "text", "author", "pub_date"}

\* serializers whose every field is taken from the body
NoneReadOnly == {}

\* the fields a body cannot set: author is declared read_only, id and
\* pub_date (auto_now_add) are not editable in the model
ReadOnly == {"id", "author", "pub_date"}

\* validated_data: the body's values for the writable fields of the
\* serializer; every other key of the body is dropped
validated_data(body, fields) ==
    [f \in DOMAIN body \cap (fields \ ReadOnly) |-> body[f]]

\* ModelSerializer.update: setattr of each validated value, then save()
Merge(row, data) ==
    [f \in DOMAIN row |-> IF f \in DOMAIN data THEN data[f] ELSE row[f]]

\* is_valid(raise_exception=True) of a review body; a partial update may
\* leave fields out
ReviewIsValid(method, u, t, body) ==
    IF method # "PATCH" /\ "text" \notin DOMAIN body THEN Err(400, "text")
    ELSE IF method # "PATCH" /\ "score" \notin DOMAIN body
    THEN Err(400, "score")
    ELSE IF "score" \in DOMAIN body /\ ~ validate_score(body.score)
    THEN Err(400, "score")
    ELSE ReviewSerializer_validate(method, u, t)

\* POST /titles/{t}/reviews/, first step: permissions and is_valid()
ReviewPostValidate(u, t, score, text) ==
    /\ BagCardinality(pend) < MaxInFlight
    /\ nextId.review <= MaxReviewId
    /\ LET body == [score |-> score, text |-> text]
           rq == Request("review_post", u, <<t>>, body)
           st == IF ~ IsAuthenticatedOrReadOnly("POST", u) THEN Denied(u)
                 ELSE ReviewIsValid("POST", u, t, body)
       IN  IF st # Ok
           THEN /\ resp' = Response(rq, st.status, st.key)
                /\ pend' = pend
           ELSE /\ pend' = pend (+) SetToBag({[author |-> u, title |-> t,
                                                 score |-> score,
                                                 text |-> text]})
                /\ resp' = Response(rq, 0, None)
    /\ UNCHANGED <<users, categories, genres, titles, reviews, comments,
                   codes, nextId>>

\* POST /titles/{t}/reviews/, second step: perform_create.  The INSERT of a
\* second row for the same (title, author) raises IntegrityError, which no
\* handler catches: the response is a 500
ReviewPostSave(q) ==
    /\ BagIn(q, pend)
    /\ LET rq == Request("review_post", q.author, <<q.title>>,
                         [score |-> q.score, text |-> q.text])
           one == SetToBag({q})
       IN  /\ pend' = pend (-) one
           /\ IF q.title \notin DOMAIN titles
              THEN /\ resp' = Response(rq, 404, "detail")
                   /\ UNCHANGED <<reviews, nextId>>
              ELSE IF ~ UniqueReview(q.title, q.author)
              THEN /\ resp' = Response(rq, 500, "-")
                   /\ UNCHANGED <<reviews, nextId>>
              ELSE /\ nextId.review <= MaxReviewId
                   /\ reviews' =
                        [r \in DOMAIN reviews \cup {nextId.review} |->
                           IF r \in DOMAIN reviews THEN reviews[r]
                           ELSE [author |-> q.author, title |-> q.title,
                                 score |-> q.score, text |-> q.text,
                                 pub_date |-> Now]]
                   /\ nextId' = [nextId EXCEPT !.review = @ + 1]
                   /\ resp' = Response(rq, 201, None)
    /\ UNCHANGED <<users, categories, genres, titles, comments, codes>>

\* get_object of ReviewViewSet: the review with this pk among title.reviews
ReviewFound(t, r) ==
    t \in DOMAIN titles /\ r \in DOMAIN reviews /\ reviews[r].title = t

\* what the view answers before it touches the object
ReviewObjectGate(method, u, t, r) ==
    IF ~ IsAuthenticatedOrReadOnly(method, u) THEN Denied(u)
    ELSE IF ~ ReviewFound(t, r) THEN NotFound
    ELSE LET p == AdminModeratorAuthorPermission(method, u, reviews[r])
         IN  IF p = "raise" THEN ServerError
             ELSE IF p = "deny" THEN Denied(u)
             ELSE Ok

\* PATCH /titles/{t}/reviews/{r}/
ReviewPatch(u, t, r, body) ==
    /\ LET rq == Request("review_patch", u, <<t, r>>, body)
           gate == ReviewObjectGate("PATCH", u, t, r)
           st == IF gate # Ok THEN gate ELSE ReviewIsValid("PATCH", u, t, body)
       IN  IF st # Ok
           THEN /\ resp' = Response(rq, st.status, st.key)
                /\ reviews' = reviews
           ELSE /\ reviews' = [reviews EXCEPT ![r] =
                     Merge(@, validated_data(body, ReviewFields))]
                /\ resp' = Response(rq, 200, None)
    /\ UNCHANGED <<users, categories, genres, titles, comments, pend, codes,
                   nextId>>

\* PUT /titles/{t}/reviews/{r}/: the router binds put to update(), which
\* dispatch reaches only for a method of http_method_names
ReviewPut(u, t, r, body) ==
    /\ LET rq == Request("review_put", u, <<t, r>>, body)
           gate == IF ~ IsAuthenticatedOrReadOnly("PUT", u) THEN Denied(u)
                   ELSE IF "put" \notin http_method_names
                   THEN MethodNotAllowed
                   ELSE ReviewObjectGate("PUT", u, t, r)
           st == IF gate # Ok THEN gate ELSE ReviewIsValid("PUT", u, t, body)
       IN  IF st # Ok
           THEN /\ resp' = Response(rq, st.status, st.key)
                /\ reviews' = reviews
           ELSE /\ reviews' = [reviews EXCEPT ![r] =
                     [@ EXCEPT !.score = body.score, !.text = body.text]]
                /\ resp' = Response(rq, 200, None)
    /\ UNCHANGED <<users, categories, genres, titles, comments, pend, codes,
                   nextId>>

\* on_delete=DO_NOTHING: no comment goes with its review
CommentsKept(rs) == {}

\* on_delete=CASCADE of Comment.review
CommentsOf(rs) == {c \in DOMAIN comments : comments[c].review \in rs}

\* DELETE /titles/{t}/reviews/{r}/
ReviewDelete(u, t, r) ==
    /\ LET rq == Request("review_delete", u, <<t, r>>, <<>>)
           st == ReviewObjectGate("DELETE", u, t, r)
       IN  IF st # Ok
           THEN /\ resp' = Response(rq, st.status, st.key)
                /\ UNCHANGED <<reviews, comments>>
           ELSE /\ reviews' = [x \in DOMAIN reviews \ {r} |-> reviews[x]]
                /\ comments' = [c \in DOMAIN comments \ CommentsOf({r}) |->
                                  comments[c]]
                /\ resp' = Response(rq, 204, None)
    /\ UNCHANGED <<users, categories, genres, titles, pend, codes, nextId>>

\* POST /titles/{t}/reviews/ as one uninterrupted request: create() runs
\* is_valid() and perform_create() back to back
ReviewCreateIn(u, t, body) ==
    /\ LET rq == Request("review_post", u, <<t>>, body)
           data == validated_data(body, ReviewFields)
           st == IF ~ IsAuthenticatedOrReadOnly("POST", u) THEN Denied(u)
                 ELSE ReviewIsValid("POST", u, t, body)
       IN  IF st # Ok
           THEN /\ resp' = Response(rq, st.status, st.key)
                /\ UNCHANGED <<reviews, nextId>>
           ELSE /\ nextId.review <= MaxReviewId
                /\ reviews' =
                     [r \in DOMAIN reviews \cup {nextId.review} |->
                        IF r \in DOMAIN reviews THEN reviews[r]
                        ELSE [author |-> u, title |-> t,
                              score |-> data.score, text |-> data.text,
                              pub_date |-> Now]]
                /\ nextId' = [nextId EXCEPT !.review = @ + 1]
                /\ resp' = Response(rq, 201, None)
    /\ UNCHANGED <<users, categories, genres, titles, comments, pend, codes>>

\* the same request with a body of the two writable fields
ReviewCreate(u, t, score, text) ==
    ReviewCreateIn(u, t, [score |-> score, text |-> text])

----------------------------------------------------------------------------
(* Comment endpoints: api/views.py CommentViewSet, api/serializers.py      *)
(* CommentSerializer, reviews/models.py Comment                            *)

\* a lookup by the review id alone
get_review_ById(t, r) == r \in DOMAIN reviews

\* get_review: get_object_or_404(Review, id=review_id, title_id=title_id)
get_review(t, r) == r \in DOMAIN reviews /\ reviews[r].title = t

\* is_valid() of CommentSerializer: text is the only writable field, a
\* CharField that takes no blank string
CommentIsValid(text) == IF text = "" THEN Err(400, "text") ELSE Ok

\* is_valid() of a comment body; a partial update may leave text out
CommentBodyIsValid(method, body) ==
    IF "text" \in DOMAIN body THEN CommentIsValid(body.text)
    ELSE IF method # "PATCH" THEN Err(400, "text")
    ELSE Ok

\* POST /titles/{t}/reviews/{r}/comments/: create() runs is_valid() and
\* then perform_create(), which resolves the review
CommentCreateIn(u, t, r, body) ==
    /\ LET rq == Request("comment_post", u, <<t, r>>, body)
           data == validated_data(body, CommentFields)
           valid == CommentBodyIsValid("POST", body)
           st == IF ~ IsAuthenticatedOrReadOnly("POST", u) THEN Denied(u)
                 ELSE IF valid # Ok THEN valid
                 ELSE IF ~ get_review(t, r) THEN NotFound
                 ELSE Ok
       IN  IF st # Ok
           THEN /\ resp' = Response(rq, st.status, st.key)
                /\ UNCHANGED <<comments, nextId>>
           ELSE /\ nextId.comment <= MaxCommentId
                /\ comments' =
                     [c \in DOMAIN comments \cup {nextId.comment} |->
                        IF c \in DOMAIN comments THEN comments[c]
                        ELSE [author |-> u, review |-> r,
                              text |-> data.text, pub_date |-> Now]]
                /\ nextId' = [nextId EXCEPT !.comment = @ + 1]
                /\ resp' = Response(rq, 201, None)
    /\ UNCHANGED <<users, categories, genres, titles, reviews, pend, codes>>

\* the same request with a body of the one writable field
CommentCreate(u, t, r, text) == CommentCreateIn(u, t, r, [text |-> text])

\* get_object of CommentViewSet: the comment with this pk among
\* get_review().comments
CommentObjectGate(method, u, t, r, c) ==
    IF ~ IsAuthenticatedOrReadOnly(method, u) THEN Denied(u)
    ELSE IF ~ get_review(t, r) THEN NotFound
    ELSE IF ~ (c \in DOMAIN comments /\ comments[c].review = r) THEN NotFound
    ELSE LET p == AdminModeratorAuthorPermission(method, u, comments[c])
         IN  IF p = "raise" THEN ServerError
             ELSE IF p = "deny" THEN Denied(u)
             ELSE Ok

\* PATCH /titles/{t}/reviews/{r}/comments/{c}/
CommentPatchIn(u, t, r, c, body) ==
    /\ LET rq == Request("comment_patch", u, <<t, r, c>>, body)
           gate == CommentObjectGate("PATCH", u, t, r, c)
           st == IF gate # Ok THEN gate
                 ELSE CommentBodyIsValid("PATCH", body)
       IN  IF st # Ok
           THEN /\ resp' = Response(rq, st.status, st.key)
                /\ comments' = comments
           ELSE /\ comments' = [comments EXCEPT ![c] =
                     Merge(@, validated_data(body, CommentFields))]
                /\ resp' = Response(rq, 200, None)
    /\ UNCHANGED <<users, categories, genres, titles, reviews, pend, codes,
                   nextId>>

\* the same request with a body of the one writable field
CommentPatch(u, t, r, c, text) == CommentPatchIn(u, t, r, c, [text |-> text])

\* DELETE /titles/{t}/reviews/{r}/comments/{c}/
CommentDelete(u, t, r, c) ==
    /\ LET rq == Request("comment_delete", u, <<t, r, c>>, <<>>)
           st == CommentObjectGate("DELETE", u, t, r, c)
       IN  IF st # Ok
           THEN /\ resp' = Response(rq, st.status, st.key)
                /\ comments' = comments
           ELSE /\ comments' = [x \in DOMAIN comments \ {c} |-> comments[x]]
                /\ resp' = Response(rq, 204, None)
    /\ UNCHANGED <<users, categories, genres, titles, reviews, pend, codes,
                   nextId>>

\* PUT /titles/{t}/reviews/{r}/comments/{c}/
CommentPut(u, t, r, c, text) ==
    /\ LET rq == Request("comment_put", u, <<t, r, c>>, [text |-> text])
           gate == IF ~ IsAuthenticatedOrReadOnly("PUT", u) THEN Denied(u)
                   ELSE IF "put" \notin http_method_names
                   THEN MethodNotAllowed
                   ELSE CommentObjectGate("PUT", u, t, r, c)
           st == IF gate # Ok THEN gate ELSE CommentIsValid(text)
       IN  IF st # Ok
           THEN /\ resp' = Response(rq, st.status, st.key)
                /\ comments' = comments
           ELSE /\ comments' = [comments EXCEPT ![c].text = text]
                /\ resp' = Response(rq, 200, None)
    /\ UNCHANGED <<users, categories, genres, titles, reviews, pend, codes,
                   nextId>>

\* GET /titles/{t}/reviews/{r}/comments/: get_queryset resolves the review
CommentList(u, t, r) ==
    /\ LET rq == Request("comment_list", u, <<t, r>>, <<>>)
       IN  resp' = IF ~ IsAuthenticatedOrReadOnly("GET", u)
                   THEN Response(rq, Denied(u).status, "detail")
                   ELSE IF ~ get_review(t, r)
                   THEN Response(rq, 404, "detail")
                   ELSE Response(rq, 200, CommentsOf({r}))
    /\ UNCHANGED <<users, categories, genres, titles, reviews, comments,
                   pend, codes, nextId>>

\* GET /titles/{t}/reviews/{r}/comments/{c}/
CommentRetrieve(u, t, r, c) ==
    /\ LET rq == Request("comment_get", u, <<t, r, c>>, <<>>)
           st == CommentObjectGate("GET", u, t, r, c)
       IN  resp' = IF st # Ok THEN Response(rq, st.status, st.key)
                   ELSE Response(rq, 200, comments[c])
    /\ UNCHANGED <<users, categories, genres, titles, reviews, comments,
                   pend, codes, nextId>>

----------------------------------------------------------------------------
(* Category and Genre endpoints: api/views.py BaseModelViewSet,            *)
(* CategoryViewSet, GenreViewSet; reviews/abstract.py BaseCategoryGenreModel*)

\* UniqueValidator of name and of slug (unique=True on both model fields)
CategoryGenreIsValid(table, row) ==
    LET dupName == \E x \in table : x.name = row.name
        dupSlug == \E x \in table : x.slug = row.slug
    IN  IF dupName /\ dupSlug THEN Err(400, "name,slug")
        ELSE IF dupName THEN Err(400, "name")
        ELSE IF dupSlug THEN Err(400, "slug")
        ELSE Ok

\* POST /categories/
CategoryCreate(u, row) ==
    /\ LET rq == Request("category_post", u, <<>>, row)
           st == IF ~ IsAdminUserOrReadOnly("POST", u) THEN Denied(u)
                 ELSE CategoryGenreIsValid(categories, row)
       IN  IF st # Ok
           THEN /\ resp' = Response(rq, st.status, st.key)
                /\ categories' = categories
           ELSE /\ categories' = categories \cup {row}
                /\ resp' = Response(rq, 201, None)
    /\ UNCHANGED <<users, genres, titles, reviews, comments, pend, codes,
                   nextId>>

\* DELETE /categories/{slug}/; Title.category is on_delete=SET_NULL
CategoryDestroy(u, slug) ==
    /\ LET rq == Request("category_delete", u, <<slug>>, <<>>)
           st == IF ~ IsAdminUserOrReadOnly("DELETE", u) THEN Denied(u)
                 ELSE IF ~ \E x \in categories : x.slug = slug THEN NotFound
                 ELSE Ok
       IN  IF st # Ok
           THEN /\ resp' = Response(rq, st.status, st.key)
                /\ UNCHANGED <<categories, titles>>
           ELSE /\ categories' = {x \in categories : x.slug # slug}
                /\ titles' = [t \in DOMAIN titles |->
                                IF titles[t].category = slug
                                THEN [titles[t] EXCEPT !.category = "null"]
                                ELSE titles[t]]
                /\ resp' = Response(rq, 204, None)
    /\ UNCHANGED <<users, genres, reviews, comments, pend, codes, nextId>>

\* GET /categories/
CategoryList(u) ==
    /\ LET rq == Request("category_list", u, <<>>, <<>>)
       IN  resp' = IF ~ IsAdminUserOrReadOnly("GET", u)
                   THEN Response(rq, Denied(u).status, "detail")
                   ELSE Response(rq, 200, categories)
    /\ UNCHANGED <<users, categories, genres, titles, reviews, comments,
                   pend, codes, nextId>>

\* GET /categories/{slug}/: the view set has no retrieve action, the router
\* maps the detail route to DELETE only, so the answer is 405
CategoryRetrieve(u, slug) ==
    /\ LET rq == Request("category_get", u, <<slug>>, <<>>)
       IN  resp' = IF ~ IsAdminUserOrReadOnly("GET", u)
                   THEN Response(rq, Denied(u).status, "detail")
                   ELSE Response(rq, 405, "detail")
    /\ UNCHANGED <<users, categories, genres, titles, reviews, comments,
                   pend, codes, nextId>>

\* POST /genres/
GenreCreate(u, row) ==
    /\ LET rq == Request("genre_post", u, <<>>, row)
           st == IF ~ IsAdminUserOrReadOnly("POST", u) THEN Denied(u)
                 ELSE CategoryGenreIsValid(genres, row)
       IN  IF st # Ok
           THEN /\ resp' = Response(rq, st.status, st.key)
                /\ genres' = genres
           ELSE /\ genres' = genres \cup {row}
                /\ resp' = Response(rq, 201, None)
    /\ UNCHANGED <<users, categories, titles, reviews, comments, pend, codes,
                   nextId>>

\* DELETE /genres/{slug}/; the rows of the many-to-many table go with it
GenreDestroy(u, slug) ==
    /\ LET rq == Request("genre_delete", u, <<slug>>, <<>>)
           st == IF ~ IsAdminUserOrReadOnly("DELETE", u) THEN Denied(u)
                 ELSE IF ~ \E x \in genres : x.slug = slug THEN NotFound
                 ELSE Ok
       IN  IF st # Ok
           THEN /\ resp' = Response(rq, st.status, st.key)
                /\ UNCHANGED <<genres, titles>>
           ELSE /\ genres' = {x \in genres : x.slug # slug}
                /\ titles' = [t \in DOMAIN titles |->
                                [titles[t] EXCEPT !.genre = @ \ {slug}]]
                /\ resp' = Response(rq, 204, None)
    /\ UNCHANGED <<users, categories, reviews, comments, pend, codes, nextId>>

\* GET /genres/
GenreList(u) ==
    /\ LET rq == Request("genre_list", u, <<>>, <<>>)
       IN  resp' = IF ~ IsAdminUserOrReadOnly("GET", u)
                   THEN Response(rq, Denied(u).status, "detail")
                   ELSE Response(rq, 200, genres)
    /\ UNCHANGED <<users, categories, genres, titles, reviews, comments,
                   pend, codes, nextId>>

\* GET /genres/{slug}/: no retrieve action either
GenreRetrieve(u, slug) ==
    /\ LET rq == Request("genre_get", u, <<slug>>, <<>>)
       IN  resp' = IF ~ IsAdminUserOrReadOnly("GET", u)
                   THEN Response(rq, Denied(u).status, "detail")
                   ELSE Response(rq, 405, "detail")
    /\ UNCHANGED <<users, categories, genres, titles, reviews, comments,
                   pend, codes, nextId>>

----------------------------------------------------------------------------
(* Title writes: api/views.py TitleViewSet with TitleWriteSerializer,      *)
(* reviews/models.py Title, api/validators.py validate_year                *)

\* a row of the Title table; category is a category slug or "null"
TitleRow(name, year, category, genre) ==
    [name |-> name, year |-> year, category |-> category, genre |-> genre]

\* timezone.now().year at the time of the requests
CurrentYear == 1

validate_year(value) == value <= CurrentYear

Slugs(table) == {x.slug : x \in table}

\* is_valid() of TitleWriteSerializer.  category and genre are declared on
\* the serializer without required=False, so a create needs both; a partial
\* update checks only the fields that are sent
TitleIsValid(body, partial) ==
    IF "year" \in DOMAIN body /\ ~ validate_year(body.year)
    THEN Err(400, "year")
    ELSE IF "category" \notin DOMAIN body /\ ~ partial
    THEN Err(400, "category")
    ELSE IF "category" \in DOMAIN body
            /\ body.category \notin Slugs(categories)
    THEN Err(400, "category")
    ELSE IF "genre" \notin DOMAIN body /\ ~ partial
    THEN Err(400, "genre")
    ELSE IF "genre" \in DOMAIN body
            /\ (body.genre = {} \/ ~ body.genre \subseteq Slugs(genres))
    THEN Err(400, "genre")
    ELSE Ok

\* POST /titles/
TitleCreate(u, body) ==
    /\ LET rq == Request("title_post", u, <<>>, body)
           st == IF ~ IsAdminUserOrReadOnly("POST", u) THEN Denied(u)
                 ELSE TitleIsValid(body, FALSE)
       IN  IF st # Ok
           THEN /\ resp' = Response(rq, st.status, st.key)
                /\ UNCHANGED <<titles, nextId>>
           ELSE /\ nextId.title <= MaxTitleId
                /\ titles' =
                     [t \in DOMAIN titles \cup {nextId.title} |->
                        IF t \in DOMAIN titles THEN titles[t]
                        ELSE TitleRow(body.name, body.year, body.category,
                                      body.genre)]
                /\ nextId' = [nextId EXCEPT !.title = @ + 1]
                /\ resp' = Response(rq, 201, None)
    /\ UNCHANGED <<users, categories, genres, reviews, comments, pend, codes>>

\* PATCH /titles/{t}/
TitlePatch(u, t, body) ==
    /\ LET rq == Request("title_patch", u, <<t>>, body)
           st == IF ~ IsAdminUserOrReadOnly("PATCH", u) THEN Denied(u)
                 ELSE IF t \notin DOMAIN titles THEN NotFound
                 ELSE TitleIsValid(body, TRUE)
       IN  IF st # Ok
           THEN /\ resp' = Response(rq, st.status, st.key)
                /\ titles' = titles
           ELSE /\ titles' = [titles EXCEPT ![t] =
                     [f \in DOMAIN @ |->
                        IF f \in DOMAIN body THEN body[f] ELSE @[f]]]
                /\ resp' = Response(rq, 200, None)
    /\ UNCHANGED <<users, categories, genres, reviews, comments, pend, codes,
                   nextId>>

\* PUT /titles/{t}/
TitlePut(u, t, body) ==
    /\ LET rq == Request("title_put", u, <<t>>, body)
           st == IF ~ IsAdminUserOrReadOnly("PUT", u) THEN Denied(u)
                 ELSE IF "put" \notin http_method_names
                 THEN MethodNotAllowed
                 ELSE IF t \notin DOMAIN titles THEN NotFound
                 ELSE TitleIsValid(body, FALSE)
       IN  IF st # Ok
           THEN /\ resp' = Response(rq, st.status, st.key)
                /\ titles' = titles
           ELSE /\ titles' = [titles EXCEPT ![t] =
                     TitleRow(body.name, body.year, body.category,
                              body.genre)]
                /\ resp' = Response(rq, 200, None)
    /\ UNCHANGED <<users, categories, genres, reviews, comments, pend, codes,
                   nextId>>

\* DELETE /titles/{t}/; Review.title and Comment.review are on_delete=CASCADE
TitleDestroy(u, t) ==
    /\ LET rq == Request("title_delete", u, <<t>>, <<>>)
           st == IF ~ IsAdminUserOrReadOnly("DELETE", u) THEN Denied(u)
                 ELSE IF t \notin DOMAIN titles THEN NotFound
                 ELSE Ok
       IN  IF st # Ok
           THEN /\ resp' = Response(rq, st.status, st.key)
                /\ UNCHANGED <<titles, reviews, comments>>
           ELSE /\ titles' = [x \in DOMAIN titles \ {t} |-> titles[x]]
                /\ reviews' = [r \in DOMAIN reviews \ ReviewsOf(t) |->
                                 reviews[r]]
                /\ comments' =
                     [c \in DOMAIN comments \ CommentsOf(ReviewsOf(t)) |->
                        comments[c]]
                /\ resp' = Response(rq, 204, None)
    /\ UNCHANGED <<users, categories, genres, pend, codes, nextId>>

----------------------------------------------------------------------------
(* Title reads: api/views.py TitleViewSet with TitleReadSerializer         *)

\* GET /titles/{t}/
TitleRetrieve(u, t) ==
    /\ LET rq == Request("title_get", u, <<t>>, <<>>)
       IN
       resp' = IF ~ IsAdminUserOrReadOnly("GET", u)
               THEN Response(rq, Denied(u).status, "detail")
               ELSE IF t \notin DOMAIN titles
               THEN Response(rq, 404, "detail")
               ELSE Response(rq, 200, Rating(t))
    /\ UNCHANGED <<users, categories, genres, titles, reviews, comments,
                   pend, codes, nextId>>

\* GET /titles/: the rating of every title (page and order left out)
TitleList(u) ==
    /\ LET rq == Request("title_list", u, <<>>, <<>>)
       IN
       resp' = IF ~ IsAdminUserOrReadOnly("GET", u)
               THEN Response(rq, Denied(u).status, "detail")
               ELSE Response(rq, 200,
                             [t \in DOMAIN titles |-> Rating(t)])
    /\ UNCHANGED <<users, categories, genres, titles, reviews, comments,
                   pend, codes, nextId>>

----------------------------------------------------------------------------
(* Signup and token exchange: api/views.py SignupView, TokenObtainView;    *)
(* api/serializers.py SignupSerializer, TokenSerializer                    *)

validate_username(value) == value # FORBIDDEN_USERNAME

UserByName(username) ==
    {u \in DOMAIN users : users[u].username = username}

UserByEmail(email) == {u \in DOMAIN users : users[u].email = email}

\* the rows of a user table with this name and this e-mail
RowsOf(table, username, email) ==
    {u \in DOMAIN table :
        table[u].username = username /\ table[u].email = email}

\* default_token_generator.make_token: the time of issue and a keyed hash of
\* it with the user's pk, password, last_login and email.  No request
\* changes password or last_login, so the code is determined by the pk, the
\* email and the time, which is the count of the codes mailed before
make_token(u, email) == [uid |-> u, email |-> email, ts |-> nextId.code]

\* a check that only looks at whose code it is
check_token_Owner(u, code) == code.uid = u

\* default_token_generator.check_token: recompute the hash for the time in
\* the code and compare (every code is younger than PASSWORD_RESET_TIMEOUT)
check_token(u, code) == code.uid = u /\ code.email = users[u].email

\* validate with the two comparisons left out
validate_AnyPair(username, email) ==
    IF ~ validate_username(username) THEN Err(400, "username") ELSE Ok

\* field validators of SignupSerializer, then SignupSerializer.validate
SignupSerializer_validate(username, email) ==
    IF ~ validate_username(username) THEN Err(400, "username")
    ELSE IF \E u \in UserByEmail(email) : users[u].username # username
    THEN Err(400, "email")
    ELSE IF \E u \in UserByName(username) : users[u].email # email
    THEN Err(400, "username")
    ELSE Ok

\* create(username=..., email=...) in place of get_or_create
AlwaysCreate(username, email) == nextId.user

\* the row get_or_create(username=..., email=...) returns
SignupTarget(username, email) ==
    LET found == UserByName(username) \cap UserByEmail(email)
    IN  IF found # {} THEN CHOOSE u \in found : TRUE ELSE nextId.user

\* a string no user's hash equals
Bogus == [uid |-> Anon, email |-> "-", ts |-> 0]

\* the message of a handled error
RawMessage(debug, e, generic) == e

\* str(e) if settings.DEBUG else the generic text
ErrorMessage(debug, e, generic) == IF debug THEN e ELSE generic

\* a user table that takes any row
NoUniqueConstraint(username, email) == FALSE

\* unique=True of User.username and of User.email: the INSERT of a row with
\* this name and e-mail is refused
UniqueViolation(username, email) ==
    UserByName(username) # {} \/ UserByEmail(email) # {}

\* the try block of SignupView.post for the request rq, after is_valid(),
\* under settings.DEBUG = debug.  mail is what send_mail does: "sent", or
\* the exception it raises.  The view catches what serializer.save()
\* raises: a serializers.ValidationError is answered 400, anything else
\* (the IntegrityError of the INSERT, an exception of send_mail) 500; the
\* row get_or_create inserted before the mail failed stays.  get_or_create
\* answers a refused INSERT with a second lookup, so at the time of the
\* INSERT it returns the row of this name and e-mail if there is one and
\* raises if the name or the e-mail is held otherwise
serializer_save(rq, debug, username, email, mail) ==
    /\ LET u == SignupTarget(username, email)
           new == u \notin DOMAIN users
           clash == new /\ UniqueViolation(username, email)
           code == make_token(u, email)
           mailOk == mail = "sent"
           Out(c, raised, msg) ==
               [mail |-> mailOk, code |-> c, debug |-> debug,
                raised |-> raised, error |-> msg]
       IN  IF clash
           THEN /\ resp' = Response(rq, 500,
                        Out(Bogus, "IntegrityError",
                            ErrorMessage(debug, "IntegrityError",
                                         "server error")))
                /\ UNCHANGED <<users, codes, nextId>>
           ELSE /\ new => u <= MaxUserId
                /\ users' = IF new
                            THEN [x \in DOMAIN users \cup {u} |->
                                    IF x \in DOMAIN users THEN users[x]
                                    ELSE NewUser(username, email)]
                            ELSE users
                /\ nextId' =
                     [nextId EXCEPT
                        !.user = IF new THEN @ + 1 ELSE @,
                        !.code = IF mailOk THEN @ + 1 ELSE @]
                /\ IF mailOk
                   THEN /\ nextId.code <= MaxCodes
                        /\ codes' = [c \in DOMAIN codes \cup {code} |->
                                       IF c \in DOMAIN codes THEN codes[c]
                                       ELSE FALSE]
                        /\ resp' = Response(rq, 200, Out(code, "-", "-"))
                   ELSE /\ codes' = codes
                        /\ resp' =
                             IF mail = "ValidationError"
                             THEN Response(rq, 400,
                                    Out(code, mail,
                                        ErrorMessage(debug, mail,
                                                     "client error")))
                             ELSE Response(rq, 500,
                                    Out(code, mail,
                                        ErrorMessage(debug, mail,
                                                     "server error")))

\* POST /auth/signup/ as one uninterrupted request
SignupIn(debug, username, email, mail) ==
    /\ LET rq == Request("signup", Anon, <<>>,
                         [username |-> username, email |-> email])
           st == SignupSerializer_validate(username, email)
       IN  IF st # Ok
           THEN /\ resp' = Response(rq, st.status, st.key)
                /\ UNCHANGED <<users, codes, nextId>>
           ELSE serializer_save(rq, debug, username, email, mail)
    /\ UNCHANGED <<categories, genres, titles, reviews, comments, pend>>

\* POST /auth/signup/, first step: is_valid(), with the lookups of
\* SignupSerializer.validate.  fresh is whether they found no row of this
\* name and e-mail
SignupPostValidate(username, email) ==
    /\ BagCardinality(pend) < MaxInFlight
    /\ LET body == [username |-> username, email |-> email,
                    fresh |-> RowsOf(users, username, email) = {}]
           rq == Request("signup_post", Anon, <<>>, body)
           st == SignupSerializer_validate(username, email)
       IN  IF st # Ok
           THEN /\ resp' = Response(rq, st.status, st.key)
                /\ pend' = pend
           ELSE /\ pend' = pend (+) SetToBag({body})
                /\ resp' = Response(rq, 0, None)
    /\ UNCHANGED <<users, categories, genres, titles, reviews, comments,
                   codes, nextId>>

\* POST /auth/signup/, second step: serializer.save() and the response
SignupPostSave(q) ==
    /\ BagIn(q, pend)
    /\ pend' = pend (-) SetToBag({q})
    /\ serializer_save(Request("signup_post", Anon, <<>>, q), FALSE,
                       q.username, q.email, "sent")
    /\ UNCHANGED <<categories, genres, titles, reviews, comments>>

\* POST /auth/signup/ in production (DEBUG off); mailOk is whether send_mail
\* delivers
Signup(username, email, mailOk) ==
    SignupIn(FALSE, username, email, IF mailOk THEN "sent" ELSE "Exception")

\* POST /auth/token/: TokenSerializer.validate
TokenObtain(username, code) ==
    /\ LET rq == Request("token", Anon, <<>>,
                         [username |-> username, confirmation_code |-> code])
           found == UserByName(username)
           u == CHOOSE x \in found : TRUE
       IN  IF found = {}
           THEN /\ resp' = Response(rq, 404, "detail")
                /\ codes' = codes
           ELSE IF ~ check_token(u, code)
           THEN /\ resp' = Response(rq, 400, "confirmation_code")
                /\ codes' = codes
           ELSE /\ resp' = Response(rq, 200, [token |-> u,
                                                username |-> username])
                /\ codes' = [codes EXCEPT ![code] = TRUE]
    /\ UNCHANGED <<users, categories, genres, titles, reviews, comments,
                   pend, nextId>>

----------------------------------------------------------------------------
(* User endpoints: api/views.py UserViewSet, api/serializers.py            *)
(* UserSerializer                                                          *)

\* __init__ that leaves role writable for everybody
AllFieldsWritable(u) == {"username", "email", "role"}

\* UserSerializer.__init__: role is read-only unless the requester is admin
WritableFields(u) ==
    IF is_admin(u) THEN {"username", "email", "role"}
    ELSE {"username", "email"}

\* the fields of the body the serializer takes
Taken(u, body) ==
    [f \in DOMAIN body \cap WritableFields(u) |-> body[f]]

\* is_valid() of UserSerializer; self is the row being updated (Anon on
\* create): the model validators of username, the UniqueValidators of
\* username and email
UserIsValid(self, data) ==
    LET badName == /\ "username" \in DOMAIN data
                   /\ \/ ~ validate_username(data.username)
                      \/ UserByName(data.username) \ {self} # {}
        badMail == /\ "email" \in DOMAIN data
                   /\ UserByEmail(data.email) \ {self} # {}
    IN  IF badName /\ badMail THEN Err(400, "username,email")
        ELSE IF badName THEN Err(400, "username")
        ELSE IF badMail THEN Err(400, "email")
        ELSE Ok

\* serializer.save() on an existing row
Updated(u, data) ==
    [users EXCEPT ![u] =
        [f \in DOMAIN @ |-> IF f \in DOMAIN data THEN data[f] ELSE @[f]]]

\* PATCH /users/me/
MePatch(u, body) ==
    /\ LET rq == Request("me_patch", u, <<>>, body)
           st == IF ~ IsAuthenticated(u) THEN Denied(u)
                 ELSE UserIsValid(u, Taken(u, body))
       IN  IF st # Ok
           THEN /\ resp' = Response(rq, st.status, st.key)
                /\ users' = users
           ELSE /\ users' = Updated(u, Taken(u, body))
                /\ resp' = Response(rq, 200, users'[u])
    /\ UNCHANGED <<categories, genres, titles, reviews, comments, pend,
                   codes, nextId>>

\* GET /users/me/
MeGet(u) ==
    /\ LET rq == Request("me_get", u, <<>>, <<>>)
       IN  resp' = IF ~ IsAuthenticated(u)
                   THEN Response(rq, Denied(u).status, "detail")
                   ELSE Response(rq, 200, users[u])
    /\ UNCHANGED <<users, categories, genres, titles, reviews, comments,
                   pend, codes, nextId>>

\* POST /users/
UserCreate(u, body) ==
    /\ LET rq == Request("user_post", u, <<>>, body)
           st == IF ~ IsAdmin(u) THEN Denied(u)
                 ELSE UserIsValid(Anon, Taken(u, body))
           data == Taken(u, body)
           row == [NewUser(data.username, data.email) EXCEPT
                     !.role = IF "role" \in DOMAIN data
                              THEN data.role ELSE @]
       IN  IF st # Ok
           THEN /\ resp' = Response(rq, st.status, st.key)
                /\ UNCHANGED <<users, nextId>>
           ELSE /\ nextId.user <= MaxUserId
                /\ users' = [x \in DOMAIN users \cup {nextId.user} |->
                               IF x \in DOMAIN users THEN users[x] ELSE row]
                /\ nextId' = [nextId EXCEPT !.user = @ + 1]
                /\ resp' = Response(rq, 201, row)
    /\ UNCHANGED <<categories, genres, titles, reviews, comments, pend,
                   codes>>

\* what a detail route of /users/{username}/ answers before it acts
UserObjectGate(u, username) ==
    IF ~ IsAdmin(u) THEN Denied(u)
    ELSE IF UserByName(username) = {} THEN NotFound
    ELSE Ok

\* PATCH /users/{username}/
UserPatch(u, username, body) ==
    /\ LET rq == Request("user_patch", u, <<username>>, body)
           gate == UserObjectGate(u, username)
           target == CHOOSE x \in UserByName(username) : TRUE
           st == IF gate # Ok THEN gate
                 ELSE UserIsValid(target, Taken(u, body))
       IN  IF st # Ok
           THEN /\ resp' = Response(rq, st.status, st.key)
                /\ users' = users
           ELSE /\ users' = Updated(target, Taken(u, body))
                /\ resp' = Response(rq, 200, users'[target])
    /\ UNCHANGED <<categories, genres, titles, reviews, comments, pend,
                   codes, nextId>>

\* DELETE /users/{username}/; the author keys of Review and Comment are
\* on_delete=CASCADE
UserDelete(u, username) ==
    /\ LET rq == Request("user_delete", u, <<username>>, <<>>)
           st == UserObjectGate(u, username)
           target == CHOOSE x \in UserByName(username) : TRUE
           gone == {r \in DOMAIN reviews : reviews[r].author = target}
           goneC == CommentsOf(gone)
                       \cup {c \in DOMAIN comments :
                               comments[c].author = target}
       IN  IF st # Ok
           THEN /\ resp' = Response(rq, st.status, st.key)
                /\ UNCHANGED <<users, reviews, comments>>
           ELSE /\ users' = [x \in DOMAIN users \ {target} |-> users[x]]
                /\ reviews' = [r \in DOMAIN reviews \ gone |-> reviews[r]]
                /\ comments' = [c \in DOMAIN comments \ goneC |->
                                  comments[c]]
                /\ resp' = Response(rq, 204, None)
    /\ UNCHANGED <<categories, genres, titles, pend, codes, nextId>>

\* GET /users/{username}/
UserRetrieve(u, username) ==
    /\ LET rq == Request("user_get", u, <<username>>, <<>>)
           st == UserObjectGate(u, username)
       IN  resp' = IF st # Ok THEN Response(rq, st.status, st.key)
                   ELSE Response(rq, 200,
                                 users[CHOOSE x \in UserByName(username) :
                                          TRUE])
    /\ UNCHANGED <<users, categories, genres, titles, reviews, comments,
                   pend, codes, nextId>>

\* GET /users/
UserList(u) ==
    /\ LET rq == Request("user_list", u, <<>>, <<>>)
       IN  resp' = IF ~ IsAdmin(u)
                   THEN Response(rq, Denied(u).status, "detail")
                   ELSE Response(rq, 200, {users[x] : x \in DOMAIN users})
    /\ UNCHANGED <<users, categories, genres, titles, reviews, comments,
                   pend, codes, nextId>>

----------------------------------------------------------------------------
(* The permission classes called on their own: api/permissions.py *)

Methods == {"GET", "HEAD", "OPTIONS", "POST", "PUT", "PATCH", "DELETE"}

\* IsAdmin().has_permission(request, view)
CallIsAdmin(method, u) ==
    /\ resp' = Response(Request("IsAdmin", u, <<>>, [method |-> method]),
                        0, Verdict(IsAdmin(u)))
    /\ UNCHANGED <<users, categories, genres, titles, reviews, comments,
                   pend, codes, nextId>>

\* IsAdminUserOrReadOnly().has_permission(request, view)
CallIsAdminUserOrReadOnly(method, u) ==
    /\ resp' = Response(Request("IsAdminUserOrReadOnly", u, <<>>,
                                [method |-> method]),
                        0, Verdict(IsAdminUserOrReadOnly(method, u)))
    /\ UNCHANGED <<users, categories, genres, titles, reviews, comments,
                   pend, codes, nextId>>

\* AdminModeratorAuthorPermission().has_object_permission(request, view,
\* obj)
CallAdminModeratorAuthorPermission(method, u, obj) ==
    /\ resp' = Response(Request("AdminModeratorAuthorPermission", u, <<>>,
                                [method |-> method, obj |-> obj]),
                        0, AdminModeratorAuthorPermission(method, u, obj))
    /\ UNCHANGED <<users, categories, genres, titles, reviews, comments,
                   pend, codes, nextId>>

----------------------------------------------------------------------------
(* Bulk import: reviews/management/commands/import_csv.py.  A category or  *)
(* a genre is identified by its slug here, as in the API; the id column of *)
(* category.csv and genre.csv stands in one-to-one relation with it        *)

\* the tables the command reads and writes, and whether it is still running
Store ==
    [users |-> users, categories |-> categories, genres |-> genres,
     titles |-> titles, reviews |-> reviews, comments |-> comments,
     ok |-> TRUE, err |-> "-"]

\* an exception of a row processor: nothing catches it, the command ends
Crash(db, e) == [db EXCEPT !.ok = FALSE, !.err = e]

\* Category.objects.get_or_create(**data); name and slug are unique
process_category(db, row) ==
    IF row \in db.categories THEN db
    ELSE IF \E x \in db.categories : x.name = row.name \/ x.slug = row.slug
    THEN Crash(db, "IntegrityError")
    ELSE [db EXCEPT !.categories = @ \cup {row}]

\* Genre.objects.get_or_create(**data)
process_genre(db, row) ==
    IF row \in db.genres THEN db
    ELSE IF \E x \in db.genres : x.name = row.name \/ x.slug = row.slug
    THEN Crash(db, "IntegrityError")
    ELSE [db EXCEPT !.genres = @ \cup {row}]

\* Category.objects.get, then Title.objects.get_or_create(category, **data)
process_title(db, row) ==
    IF row.category \notin {x.slug : x \in db.categories}
    THEN Crash(db, "DoesNotExist")
    ELSE IF /\ row.id \in DOMAIN db.titles
            /\ db.titles[row.id].name = row.name
            /\ db.titles[row.id].year = row.year
            /\ db.titles[row.id].category = row.category
    THEN db
    ELSE IF row.id \in DOMAIN db.titles THEN Crash(db, "IntegrityError")
    ELSE [db EXCEPT !.titles =
            [t \in DOMAIN @ \cup {row.id} |->
               IF t \in DOMAIN @ THEN @[t]
               ELSE TitleRow(row.name, row.year, row.category, {})]]

\* Title.objects.get, Genre.objects.get, title.genre.add(genre)
process_genre_title(db, row) ==
    IF \/ row.title_id \notin DOMAIN db.titles
       \/ row.genre_id \notin {x.slug : x \in db.genres}
    THEN Crash(db, "DoesNotExist")
    ELSE [db EXCEPT !.titles[row.title_id].genre = @ \cup {row.genre_id}]

\* User.objects.get_or_create(**data); username and email are unique
process_user(db, row) ==
    IF /\ row.id \in DOMAIN db.users
       /\ db.users[row.id].username = row.username
       /\ db.users[row.id].email = row.email
       /\ db.users[row.id].role = row.role
    THEN db
    ELSE IF \/ row.id \in DOMAIN db.users
            \/ \E u \in DOMAIN db.users :
                  \/ db.users[u].username = row.username
                  \/ db.users[u].email = row.email
    THEN Crash(db, "IntegrityError")
    ELSE [db EXCEPT !.users =
            [u \in DOMAIN @ \cup {row.id} |->
               IF u \in DOMAIN @ THEN @[u]
               ELSE [NewUser(row.username, row.email)
                        EXCEPT !.role = row.role]]]

\* Title.objects.get, User.objects.get, then
\* Review.objects.get_or_create(title=title, author=author, **data): the
\* lookup is by every column of the row, pub_date included when the file
\* has it; the row it inserts gets pub_date from auto_now_add
process_review(db, row) ==
    IF \/ row.title_id \notin DOMAIN db.titles
       \/ row.author \notin DOMAIN db.users
    THEN Crash(db, "DoesNotExist")
    ELSE IF /\ row.id \in DOMAIN db.reviews
            /\ db.reviews[row.id].title = row.title_id
            /\ db.reviews[row.id].author = row.author
            /\ db.reviews[row.id].text = row.text
            /\ db.reviews[row.id].score = row.score
            /\ "pub_date" \in DOMAIN row
                 => db.reviews[row.id].pub_date = row.pub_date
    THEN db
    ELSE IF \/ row.id \in DOMAIN db.reviews
            \/ \E r \in DOMAIN db.reviews :
                  /\ db.reviews[r].title = row.title_id
                  /\ db.reviews[r].author = row.author
    THEN Crash(db, "IntegrityError")
    ELSE [db EXCEPT !.reviews =
            [r \in DOMAIN @ \cup {row.id} |->
               IF r \in DOMAIN @ THEN @[r]
               ELSE [author |-> row.author, title |-> row.title_id,
                     score |-> row.score, text |-> row.text,
                     pub_date |-> Now]]]

\* Review.objects.get, User.objects.get, then
\* Comment.objects.get_or_create(review=review, author=author, **data)
process_comment(db, row) ==
    IF \/ row.review_id \notin DOMAIN db.reviews
       \/ row.author \notin DOMAIN db.users
    THEN Crash(db, "DoesNotExist")
    ELSE IF /\ row.id \in DOMAIN db.comments
            /\ db.comments[row.id].review = row.review_id
            /\ db.comments[row.id].author = row.author
            /\ db.comments[row.id].text = row.text
            /\ "pub_date" \in DOMAIN row
                 => db.comments[row.id].pub_date = row.pub_date
    THEN db
    ELSE IF row.id \in DOMAIN db.comments THEN Crash(db, "IntegrityError")
    ELSE [db EXCEPT !.comments =
            [c \in DOMAIN @ \cup {row.id} |->
               IF c \in DOMAIN @ THEN @[c]
               ELSE [author |-> row.author, review |-> row.review_id,
                     text |-> row.text, pub_date |-> Now]]]

\* getattr(self, f'_process_{processor}')
process(db, processor, row) ==
    CASE processor = "category" -> process_category(db, row)
      [] processor = "genre" -> process_genre(db, row)
      [] processor = "title" -> process_title(db, row)
      [] processor = "genre_title" -> process_genre_title(db, row)
      [] processor = "user" -> process_user(db, row)
      [] processor = "review" -> process_review(db, row)
      [] processor = "comment" -> process_comment(db, row)

\* _load_data: the rows of one file in order; an exception ends the run
RECURSIVE load_data(_, _, _)
load_data(db, rows, processor) ==
    IF rows = <<>> \/ ~ db.ok THEN db
    ELSE load_data(process(db, processor, Head(rows)), Tail(rows), processor)

\* Command.handle: the files in load_sequence order
handle(db, files) ==
    load_data(
      load_data(
        load_data(
          load_data(
            load_data(
              load_data(
                load_data(db, files.category, "category"),
                files.genre, "genre"),
              files.titles, "title"),
            files.genre_title, "genre_title"),
          files.users, "user"),
        files.review, "review"),
      files.comments, "comment")

\* the next value of an id sequence after rows were inserted with their ids
NextKey(old, table) ==
    IF \E k \in DOMAIN table : k >= old
    THEN 1 + CHOOSE k \in DOMAIN table : \A j \in DOMAIN table : j <= k
    ELSE old

\* manage.py import_csv on the files given; exit status 0, or 1 when a row
\* processor raised (the rows saved until then stay: each get_or_create
\* commits on its own)
ImportCsv(files) ==
    /\ LET db == handle(Store, files)
           rq == Request("import_csv", Anon, <<>>, files)
       IN  /\ users' = db.users
           /\ categories' = db.categories
           /\ genres' = db.genres
           /\ titles' = db.titles
           /\ reviews' = db.reviews
           /\ comments' = db.comments
           /\ nextId' = [nextId EXCEPT
                           !.user = NextKey(@, db.users),
                           !.title = NextKey(@, db.titles),
                           !.review = NextKey(@, db.reviews),
                           !.comment = NextKey(@, db.comments)]
           /\ resp' = Response(rq, IF db.ok THEN 0 ELSE 1, db.err)
    /\ UNCHANGED <<pend, codes>>

----------------------------------------------------------------------------
(* Populated stores the specifications start from *)

Row(username, email, role, su) ==
    [username |-> username, email |-> email, role |-> role,
     is_superuser |-> su, is_active |-> TRUE]

\* two plain users
TwoUsers ==
    (1 :> Row("ann", "ann@x", USER, FALSE))
        @@ (2 :> Row("bob", "bob@x", USER, FALSE))

\* two plain users, a moderator, an admin and a superuser whose role is user
Staff ==
    TwoUsers
        @@ (3 :> Row("mod", "mod@x", MODERATOR, FALSE))
        @@ (4 :> Row("adm", "adm@x", ADMIN, FALSE))
        @@ (5 :> Row("sup", "sup@x", USER, TRUE))

Genre1 == [name |-> "Drama", slug |-> "drama"]
Category1 == [name |-> "Film", slug |-> "film"]

OneTitle == 1 :> TitleRow("n1", 1, "film", {"drama"})

TwoTitles == OneTitle @@ (2 :> TitleRow("n2", 1, "film", {"drama"}))

Empty == [x \in {} |-> 0]

Idle == Response(Request("none", Anon, <<>>, <<>>), 0, None)

\* path identifiers a client can send
ReviewIds == 1..MaxReviewId

\* the users who write reviews and comments in the bounded runs
Authors == {1, 2}

\* bodies of the partial updates sent in the bounded runs
ScorePatches == {[score |-> MIN_SCORE + 1], [score |-> MAX_SCORE + 1]}

TextPatches == {[text |-> "b"], [score |-> MAX_SCORE + 1]}

\* a review of each plain user on the first title
TwoReviews ==
    (1 :> [author |-> 1, title |-> 1, score |-> MIN_SCORE, text |-> "a",
           pub_date |-> Now])
        @@ (2 :> [author |-> 2, title |-> 1, score |-> MIN_SCORE,
                  text |-> "a", pub_date |-> Now])

----------------------------------------------------------------------------
(* Reviews under concurrent requests *)

InitReview ==
    /\ users = TwoUsers
    /\ categories = {Category1}
    /\ genres = {Genre1}
    /\ titles = TwoTitles
    /\ reviews = Empty
    /\ comments = Empty
    /\ pend = EmptyBag
    /\ codes = Empty
    /\ nextId = [user |-> 3, title |-> 3, review |-> 1, comment |-> 1,
                 code |-> 1]
    /\ resp = Idle

NextReview ==
    \/ \E u \in Requesters, t \in DOMAIN titles,
          s \in {MIN_SCORE - 1, MIN_SCORE} : ReviewPostValidate(u, t, s, "a")
    \/ \E q \in BagToSet(pend) : ReviewPostSave(q)
    \/ \E u \in Requesters, r \in DOMAIN reviews, b \in TextPatches :
          ReviewPatch(u, reviews[r].title, r, b)
    \/ \E u \in Requesters, r \in DOMAIN reviews :
          ReviewDelete(u, reviews[r].title, r)

SpecReview == InitReview /\ [][NextReview]_vars

----------------------------------------------------------------------------
(* Reviews written one request at a time, with the rating reads *)

NextRating ==
    \/ \E u \in Requesters, t \in DOMAIN titles,
          s \in {MIN_SCORE - 1, MIN_SCORE} : ReviewCreate(u, t, s, "a")
    \/ \E u \in Requesters, t \in DOMAIN titles, r \in ReviewIds,
          b \in ScorePatches : ReviewPatch(u, t, r, b)
    \/ \E u \in Requesters, t \in DOMAIN titles, r \in ReviewIds :
          ReviewDelete(u, t, r)
    \/ \E u \in Requesters, t \in DOMAIN titles \cup {nextId.title} :
          TitleRetrieve(u, t)
    \/ \E u \in Requesters : TitleList(u)

SpecRating == InitReview /\ [][NextRating]_vars

----------------------------------------------------------------------------
(* Reviews and comments of one title, requested by every kind of user *)

InitFeedback ==
    /\ users = Staff
    /\ categories = {Category1}
    /\ genres = {Genre1}
    /\ titles = OneTitle
    /\ reviews = TwoReviews
    /\ comments = Empty
    /\ pend = EmptyBag
    /\ codes = Empty
    /\ nextId = [user |-> 6, title |-> 2, review |-> 3, comment |-> 1,
                 code |-> 1]
    /\ resp = Idle

NextFeedback ==
    \/ \E u \in Requesters, r \in DOMAIN reviews, b \in TextPatches :
          ReviewPatch(u, reviews[r].title, r, b)
    \/ \E u \in Requesters, r \in DOMAIN reviews :
          ReviewDelete(u, reviews[r].title, r)
    \/ \E u \in Authors \cup {Anon}, r \in DOMAIN reviews :
          CommentCreate(u, reviews[r].title, r, "a")
    \/ \E u \in Requesters, c \in DOMAIN comments :
          CommentPatch(u, 1, comments[c].review, c, "b")
    \/ \E u \in Requesters, c \in DOMAIN comments :
          CommentDelete(u, 1, comments[c].review, c)

SpecFeedback == InitFeedback /\ [][NextFeedback]_vars

----------------------------------------------------------------------------
(* The catalog, requested by every kind of user *)

\* a plain user, a moderator, an admin and a superuser whose role is user
CatalogUsers == [u \in {1, 3, 4, 5} |-> Staff[u]]

CategoryInputs == {Category1, [name |-> "Book", slug |-> "book"]}
GenreInputs == {Genre1}

TitleBodies ==
    {[name |-> "n1", year |-> CurrentYear, category |-> "film",
      genre |-> {"drama"}],
     [name |-> "n1", year |-> CurrentYear + 1, category |-> "film",
      genre |-> {"drama"}],
     [name |-> "n1", year |-> CurrentYear, genre |-> {"drama"}],
     [name |-> "n1", year |-> CurrentYear, category |-> "film",
      genre |-> {}]}

TitlePatches == {[category |-> "book"], [name |-> "n2"]}

InitCatalog ==
    /\ users = CatalogUsers
    /\ categories = {}
    /\ genres = {}
    /\ titles = Empty
    /\ reviews = Empty
    /\ comments = Empty
    /\ pend = EmptyBag
    /\ codes = Empty
    /\ nextId = [user |-> 6, title |-> 1, review |-> 1, comment |-> 1,
                 code |-> 1]
    /\ resp = Idle

NextCatalog ==
    \/ \E u \in Requesters, row \in CategoryInputs : CategoryCreate(u, row)
    \/ \E u \in Requesters, row \in CategoryInputs :
          CategoryDestroy(u, row.slug)
    \/ \E u \in Requesters : CategoryList(u)
    \/ \E u \in Requesters, row \in CategoryInputs :
          CategoryRetrieve(u, row.slug)
    \/ \E u \in Requesters, row \in GenreInputs : GenreCreate(u, row)
    \/ \E u \in Requesters, row \in GenreInputs : GenreDestroy(u, row.slug)
    \/ \E u \in Requesters : GenreList(u)
    \/ \E u \in Requesters, row \in GenreInputs : GenreRetrieve(u, row.slug)
    \/ \E u \in Requesters, b \in TitleBodies : TitleCreate(u, b)
    \/ \E u \in Requesters, t \in 1..MaxTitleId, b \in TitlePatches :
          TitlePatch(u, t, b)
    \/ \E u \in Requesters, t \in 1..MaxTitleId : TitleDestroy(u, t)
    \/ \E u \in Requesters, t \in 1..MaxTitleId : TitleRetrieve(u, t)
    \/ \E u \in Requesters : TitleList(u)

SpecCatalog == InitCatalog /\ [][NextCatalog]_vars

----------------------------------------------------------------------------
(* Registration, token exchange and the user endpoints *)

OneAdmin == 1 :> Row("adm", "adm@x", ADMIN, FALSE)

Usernames == {"fox", "owl"}
Emails == {"fox@x", "owl@x"}

UserPatches == {[email |-> "owl@x"], [role |-> ADMIN]}

UserBodies == {[username |-> "owl", email |-> "owl@x", role |-> MODERATOR]}

InitAuth ==
    /\ users = OneAdmin
    /\ categories = {}
    /\ genres = {}
    /\ titles = Empty
    /\ reviews = Empty
    /\ comments = Empty
    /\ pend = EmptyBag
    /\ codes = Empty
    /\ nextId = [user |-> 2, title |-> 1, review |-> 1, comment |-> 1,
                 code |-> 1]
    /\ resp = Idle

\* signup, token exchange and the requester's own row
NextSignup ==
    \/ \E n \in Usernames \cup {FORBIDDEN_USERNAME}, e \in Emails,
          ok \in BOOLEAN : Signup(n, e, ok)
    \/ \E n \in Usernames, c \in DOMAIN codes \cup {Bogus} :
          TokenObtain(n, c)
    \/ \E u \in Requesters, b \in UserPatches : MePatch(u, b)
    \/ \E u \in Requesters : MeGet(u)

SpecSignup == InitAuth /\ [][NextSignup]_vars

\* signup under both settings of DEBUG and every outcome of the mail
MailOutcomes == {"sent", "Exception", "ValidationError"}

NextSignupErrors ==
    \/ \E d \in BOOLEAN, n \in Usernames, e \in Emails, m \in MailOutcomes :
          SignupIn(d, n, e, m)
    \/ \E u \in Requesters, b \in UserPatches : MePatch(u, b)

SpecSignupErrors == InitAuth /\ [][NextSignupErrors]_vars

\* signups in two steps on an empty user table
InitSignupRace ==
    /\ users = Empty
    /\ categories = {}
    /\ genres = {}
    /\ titles = Empty
    /\ reviews = Empty
    /\ comments = Empty
    /\ pend = EmptyBag
    /\ codes = Empty
    /\ nextId = [user |-> 1, title |-> 1, review |-> 1, comment |-> 1,
                 code |-> 1]
    /\ resp = Idle

NextSignupRace ==
    \/ \E n \in Usernames, e \in Emails : SignupPostValidate(n, e)
    \/ \E q \in BagToSet(pend) : SignupPostSave(q)

SpecSignupRace == InitSignupRace /\ [][NextSignupRace]_vars

\* every request that touches the user table
NextAuth ==
    \/ \E n \in Usernames : Signup(n, "fox@x", TRUE)
    \/ \E n \in Usernames, c \in DOMAIN codes : TokenObtain(n, c)
    \/ \E u \in Requesters, b \in UserPatches : MePatch(u, b)
    \/ \E u \in Requesters : MeGet(u)
    \/ \E u \in Requesters, b \in UserBodies : UserCreate(u, b)
    \/ \E u \in Requesters, n \in Usernames, b \in UserPatches :
          UserPatch(u, n, b)
    \/ \E u \in Requesters, n \in Usernames : UserDelete(u, n)
    \/ \E u \in Requesters, n \in Usernames : UserRetrieve(u, n)
    \/ \E u \in Requesters : UserList(u)

SpecAuth == InitAuth /\ [][NextAuth]_vars

----------------------------------------------------------------------------
(* Deletions of titles, categories and reviews under feedback *)

\* a plain user and an admin
OwnerUsers == [u \in {1, 4} |-> Staff[u]]

InitOwnership ==
    /\ users = OwnerUsers
    /\ categories = {Category1}
    /\ genres = {Genre1}
    /\ titles = TwoTitles
    /\ reviews = Empty
    /\ comments = Empty
    /\ pend = EmptyBag
    /\ codes = Empty
    /\ nextId = [user |-> 6, title |-> 3, review |-> 1, comment |-> 1,
                 code |-> 1]
    /\ resp = Idle

NextOwnership ==
    \/ \E t \in DOMAIN titles : ReviewPostValidate(1, t, MIN_SCORE, "a")
    \/ \E q \in BagToSet(pend) : ReviewPostSave(q)
    \/ \E r \in DOMAIN reviews : CommentCreate(1, reviews[r].title, r, "a")
    \/ \E r \in DOMAIN reviews : ReviewDelete(1, reviews[r].title, r)
    \/ \E u \in Requesters, t \in DOMAIN titles : TitleDestroy(u, t)
    \/ \E u \in Requesters : CategoryDestroy(u, Category1.slug)

SpecOwnership == InitOwnership /\ [][NextOwnership]_vars

----------------------------------------------------------------------------
(* Comments requested under every pairing of title and review *)

\* a review of the first user on the first title and of the second user on
\* the second title
ReviewPerTitle ==
    (1 :> [author |-> 1, title |-> 1, score |-> MIN_SCORE, text |-> "a",
           pub_date |-> Now])
        @@ (2 :> [author |-> 2, title |-> 2, score |-> MIN_SCORE,
                  text |-> "a", pub_date |-> Now])

InitComments ==
    /\ users = TwoUsers
    /\ categories = {Category1}
    /\ genres = {Genre1}
    /\ titles = TwoTitles
    /\ reviews = ReviewPerTitle
    /\ comments = Empty
    /\ pend = EmptyBag
    /\ codes = Empty
    /\ nextId = [user |-> 3, title |-> 3, review |-> 3, comment |-> 1,
                 code |-> 1]
    /\ resp = Idle

NextComments ==
    \/ \E u \in {Anon, 1}, t \in DOMAIN titles, r \in DOMAIN reviews,
          x \in {"a", ""} : CommentCreate(u, t, r, x)
    \/ \E u \in {Anon, 1}, t \in DOMAIN titles, r \in DOMAIN reviews :
          CommentList(u, t, r)
    \/ \E u \in {Anon, 1}, t \in DOMAIN titles, r \in DOMAIN reviews,
          c \in DOMAIN comments : CommentRetrieve(u, t, r, c)
    \/ \E u \in {Anon, 1}, t \in DOMAIN titles, r \in DOMAIN reviews,
          c \in DOMAIN comments, x \in {"b", ""} :
          CommentPatch(u, t, r, c, x)
    \/ \E u \in {Anon, 1}, t \in DOMAIN titles, r \in DOMAIN reviews,
          c \in DOMAIN comments : CommentDelete(u, t, r, c)

SpecComments == InitComments /\ [][NextComments]_vars

----------------------------------------------------------------------------
(* PUT and PATCH of a title, its reviews and a comment, by every kind of   *)
(* user                                                                    *)

\* a comment of the first user on the first review
OneComment ==
    1 :> [author |-> 1, review |-> 1, text |-> "a", pub_date |-> Now]

TitlePutBody ==
    [name |-> "n2", year |-> CurrentYear, category |-> "film",
     genre |-> {"drama"}]

ReviewPutBody == [score |-> MAX_SCORE, text |-> "b"]

InitPut ==
    /\ users = Staff
    /\ categories = {Category1}
    /\ genres = {Genre1}
    /\ titles = OneTitle
    /\ reviews = TwoReviews
    /\ comments = OneComment
    /\ pend = EmptyBag
    /\ codes = Empty
    /\ nextId = [user |-> 6, title |-> 2, review |-> 3, comment |-> 2,
                 code |-> 1]
    /\ resp = Idle

NextPut ==
    \/ \E u \in Requesters, t \in DOMAIN titles \cup {nextId.title} :
          TitlePut(u, t, TitlePutBody)
    \/ \E u \in Requesters, r \in DOMAIN reviews :
          ReviewPut(u, reviews[r].title, r, ReviewPutBody)
    \/ \E u \in Requesters, c \in DOMAIN comments :
          CommentPut(u, 1, comments[c].review, c, "b")
    \/ \E u \in Requesters, t \in DOMAIN titles :
          TitlePatch(u, t, [year |-> 0])
    \/ \E u \in Requesters, r \in DOMAIN reviews :
          ReviewPatch(u, reviews[r].title, r, [text |-> "c"])
    \/ \E u \in Requesters, c \in DOMAIN comments :
          CommentPatch(u, 1, comments[c].review, c, "c")

SpecPut == InitPut /\ [][NextPut]_vars

----------------------------------------------------------------------------
(* Review writes with scores on both sides of both bounds *)

ScoreEdges == {MIN_SCORE - 1, MIN_SCORE, MAX_SCORE, MAX_SCORE + 1}

NextScore ==
    \/ \E u \in Requesters, t \in DOMAIN titles \cup {nextId.title},
          x \in ScoreEdges : ReviewCreate(u, t, x, "a")
    \/ \E u \in Requesters, t \in DOMAIN titles, r \in ReviewIds,
          x \in ScoreEdges : ReviewPatch(u, t, r, [score |-> x])

SpecScore == InitReview /\ [][NextScore]_vars

----------------------------------------------------------------------------
(* The import command run on several sets of files, between API requests *)

\* a pub_date column value: a time before the import
CsvDate == 0

\* with(row, dated): the row with a pub_date column when the file has one
CsvRow(row, dated) ==
    IF dated
    THEN [f \in DOMAIN row \cup {"pub_date"} |->
            IF f = "pub_date" THEN CsvDate ELSE row[f]]
    ELSE row

CsvReviews(dated) ==
    <<CsvRow([id |-> 1, title_id |-> 1, author |-> 1, text |-> "a",
              score |-> MIN_SCORE], dated),
      CsvRow([id |-> 2, title_id |-> 1, author |-> 2, text |-> "a",
              score |-> MAX_SCORE], dated)>>

CsvComments(dated) ==
    <<CsvRow([id |-> 1, review_id |-> 1, author |-> 2, text |-> "a"],
             dated)>>

\* the files of static/data with the first n reviews, and a comment when
\* there is a review
CsvFiles(n, dated) ==
    [category |-> <<Category1>>,
     genre |-> <<Genre1>>,
     titles |-> <<[id |-> 1, name |-> "n1", year |-> CurrentYear,
                   category |-> "film"]>>,
     genre_title |-> <<[title_id |-> 1, genre_id |-> "drama"]>>,
     users |-> <<[id |-> 1, username |-> "ann", email |-> "ann@x",
                  role |-> USER],
                 [id |-> 2, username |-> "adm", email |-> "adm@x",
                  role |-> ADMIN]>>,
     review |-> SubSeq(CsvReviews(dated), 1, n),
     comments |-> IF n > 0 THEN CsvComments(dated) ELSE <<>>]

FileSets == {CsvFiles(n, dated) : n \in 0..2, dated \in BOOLEAN}

InitImport ==
    /\ users = Empty
    /\ categories = {}
    /\ genres = {}
    /\ titles = Empty
    /\ reviews = Empty
    /\ comments = Empty
    /\ pend = EmptyBag
    /\ codes = Empty
    /\ nextId = [user |-> 1, title |-> 1, review |-> 1, comment |-> 1,
                 code |-> 1]
    /\ resp = Idle

NextImport ==
    \/ \E f \in FileSets : ImportCsv(f)
    \/ \E u \in Requesters, r \in DOMAIN reviews :
          ReviewPatch(u, reviews[r].title, r, [text |-> "b"])
    \/ \E u \in Requesters, r \in DOMAIN reviews :
          ReviewDelete(u, reviews[r].title, r)
    \/ \E u \in Requesters, t \in DOMAIN titles : TitleDestroy(u, t)

SpecImport == InitImport /\ [][NextImport]_vars

----------------------------------------------------------------------------
(* Reviews and comments written with bodies that name another author,      *)
(* another parent and an earlier pub_date                                  *)

\* the first user's review of the first title
OneReview ==
    1 :> [author |-> 1, title |-> 1, score |-> MIN_SCORE, text |-> "a",
          pub_date |-> Now]

\* keys a client adds to a review body and to a comment body
ForgedReview == [author |-> 3, title |-> 2, pub_date |-> Now - 1]

ForgedComment == [author |-> 3, review |-> 2, pub_date |-> Now - 1]

InitAuthorship ==
    /\ users = Staff
    /\ categories = {Category1}
    /\ genres = {Genre1}
    /\ titles = OneTitle
    /\ reviews = OneReview
    /\ comments = Empty
    /\ pend = EmptyBag
    /\ codes = Empty
    /\ nextId = [user |-> 6, title |-> 2, review |-> 2, comment |-> 1,
                 code |-> 1]
    /\ resp = Idle

NextAuthorship ==
    \/ \E u \in {Anon, 2}, t \in DOMAIN titles,
          b \in {ReviewPutBody, ReviewPutBody @@ ForgedReview} :
          ReviewCreateIn(u, t, b)
    \/ \E u \in Requesters, r \in DOMAIN reviews,
          b \in {[text |-> "c"], [text |-> "c"] @@ ForgedReview,
                 ForgedReview} :
          ReviewPatch(u, reviews[r].title, r, b)
    \/ \E u \in {Anon, 2}, r \in DOMAIN reviews,
          b \in {[text |-> "b"], [text |-> "b"] @@ ForgedComment} :
          CommentCreateIn(u, reviews[r].title, r, b)
    \/ \E u \in Requesters, c \in DOMAIN comments,
          b \in {[text |-> "c"], [text |-> "c"] @@ ForgedComment,
                 ForgedComment} :
          CommentPatchIn(u, reviews[comments[c].review].title,
                         comments[c].review, c, b)

SpecAuthorship == InitAuthorship /\ [][NextAuthorship]_vars

----------------------------------------------------------------------------
(* Every permission class on every requester, method and object *)

NextPermissions ==
    \/ \E m \in Methods, u \in Requesters : CallIsAdmin(m, u)
    \/ \E m \in Methods, u \in Requesters : CallIsAdminUserOrReadOnly(m, u)
    \/ \E m \in Methods, u \in Requesters, r \in DOMAIN reviews :
          CallAdminModeratorAuthorPermission(m, u, reviews[r])
    \/ \E m \in Methods, u \in Requesters, c \in DOMAIN comments :
          CallAdminModeratorAuthorPermission(m, u, comments[c])

SpecPermissions == InitPut /\ [][NextPermissions]_vars

----------------------------------------------------------------------------
(* Properties of the review store *)

SamePair(r1, r2) ==
    /\ reviews[r1].title = reviews[r2].title
    /\ reviews[r1].author = reviews[r2].author

\* the step answers a POST of a review by a user who has one of that title
SecondPost ==
    /\ resp'.op = "review_post"
    /\ resp'.user # Anon
    /\ resp'.path[1] \in DOMAIN titles
    /\ ~ UniqueReview(resp'.path[1], resp'.user)

\* C1: in every reachable state there is at most one review for each
\* (title, author) pair, and a POST by an author who already has a review of
\* the title is refused (never 201) and leaves the reviews as they were;
\* when the request is refused at validation, with no write of the same
\* author in flight, the answer is 400.
C1_OneReviewPerPair ==
    /\ [](\A r1, r2 \in DOMAIN reviews : SamePair(r1, r2) => r1 = r2)
    /\ [][SecondPost
            => /\ resp'.status \notin {0, 201}
               /\ reviews' = reviews
               /\ pend' = pend => resp'.status = 400]_vars

\* a second POST by the author of an existing review was turned away as a
\* non-field validation error
C1_Witness ==
    /\ resp.op = "review_post"
    /\ resp.status = 400
    /\ resp.out = "non_field_errors"
    /\ ~ UniqueReview(resp.path[1], resp.user)

\* C2: when two POSTs of the same author for the same title are both past
\* validation, exactly one review is stored and the write that finds the
\* row already there is answered with a client error (400 or 409), not a
\* server error.
C2_RaceLoserGetsConflict ==
    [][(SecondPost /\ pend' # pend)
          => reviews' = reviews /\ resp'.status \in {400, 409}]_vars

\* C3: a title read returns the exact mean of the scores of the title's
\* reviews, and MIN_SCORE when the title has none.
IsMeanOf(rating, t) ==
    IF ReviewsOf(t) = {}
    THEN rating = [null |-> FALSE, value |-> MIN_SCORE]
    ELSE /\ ~ rating.null
         /\ rating.value * Cardinality(ReviewsOf(t)) = SumScores(ReviewsOf(t))

C3_RatingIsMean ==
    /\ (resp.op = "title_get" /\ resp.status = 200)
          => IsMeanOf(resp.out, resp.path[1])
    /\ (resp.op = "title_list" /\ resp.status = 200)
          => \A t \in DOMAIN titles : IsMeanOf(resp.out[t], t)

----------------------------------------------------------------------------
(* Properties of the feedback permissions *)

\* the requester is the author of the object, a moderator, an admin or a
\* superuser
MayModify(u, obj) ==
    /\ u # Anon
    /\ \/ obj.author = u
       \/ users[u].role \in {MODERATOR, ADMIN}
       \/ users[u].is_superuser

\* the step answers a PATCH or DELETE of an existing review
ReviewWrite ==
    /\ resp'.op \in {"review_patch", "review_delete"}
    /\ ReviewFound(resp'.path[1], resp'.path[2])

\* the step answers a PATCH or DELETE of an existing comment
CommentWrite ==
    /\ resp'.op \in {"comment_patch", "comment_delete"}
    /\ get_review(resp'.path[1], resp'.path[2])
    /\ resp'.path[3] \in DOMAIN comments
    /\ comments[resp'.path[3]].review = resp'.path[2]

\* C4: a PATCH or DELETE of an existing review or comment succeeds only for
\* the author, a moderator or an admin (or superuser); from anybody else,
\* anonymous included, it is answered 401/403 and changes no review and no
\* comment.
C4_OnlyAuthorOrStaffModifies ==
    [][/\ ReviewWrite
            => LET may == MayModify(resp'.user, reviews[resp'.path[2]])
               IN  /\ resp'.status \in {200, 204} => may
                   /\ ~ may => /\ resp'.status \in {401, 403}
                               /\ reviews' = reviews
                               /\ comments' = comments
       /\ CommentWrite
            => LET may == MayModify(resp'.user, comments[resp'.path[3]])
               IN  /\ resp'.status \in {200, 204} => may
                   /\ ~ may => /\ resp'.status \in {401, 403}
                               /\ reviews' = reviews
                               /\ comments' = comments]_vars

\* a user who is neither the author nor staff was refused the deletion of a
\* comment that is still there
C4_Witness ==
    /\ resp.op = "comment_delete"
    /\ resp.status = 403
    /\ resp.path[3] \in DOMAIN comments
    /\ users[resp.user].role = USER
    /\ comments[resp.path[3]].author # resp.user

----------------------------------------------------------------------------
(* Properties of the catalog permissions *)

CatalogReads ==
    {"category_list", "category_get", "genre_list", "genre_get",
     "title_list", "title_get"}

CatalogWrites ==
    {"category_post", "category_delete", "genre_post", "genre_delete",
     "title_post", "title_patch", "title_delete"}

\* the requester is logged in and is an admin or a superuser
MayWriteCatalog(u) ==
    u # Anon /\ (users[u].role = ADMIN \/ users[u].is_superuser)

----------------------------------------------------------------------------
(* Properties of the registration and token flow *)

\* some user holds the e-mail under another name, or the name with another
\* e-mail
OwnershipMismatch(username, email) ==
    \E u \in DOMAIN users :
        \/ users[u].email = email /\ users[u].username # username
        \/ users[u].username = username /\ users[u].email # email

\* C6: a signup whose e-mail belongs to another username, or whose username
\* belongs to another e-mail, is answered 400 on that field; it creates no
\* user, changes no user and mails no code.
C6_SignupConflictRejected ==
    [][(/\ resp'.op = "signup"
        /\ OwnershipMismatch(resp'.body.username, resp'.body.email))
          => /\ resp'.status = 400
             /\ resp'.out \in {"email", "username"}
             /\ users' = users
             /\ codes' = codes
             /\ nextId' = nextId]_vars

\* a signup with the e-mail of another user was refused on the e-mail
C6_Witness ==
    /\ resp.op = "signup"
    /\ resp.status = 400
    /\ resp.out = "email"
    /\ \E u \in DOMAIN users :
          users[u].email = resp.body.email
              /\ users[u].username # resp.body.username

\* C7: a signup with the (username, email) pair of an existing user leaves
\* the user table as it is, with exactly one row for the pair, and, when the
\* mail goes out, is answered 200 with a fresh code mailed that verifies for
\* that user.
C7_SignupIdempotent ==
    [][(/\ resp'.op = "signup"
        /\ RowsOf(users, resp'.body.username, resp'.body.email) # {})
          => /\ users' = users
             /\ Cardinality(RowsOf(users', resp'.body.username,
                                   resp'.body.email)) = 1
             /\ resp'.out.mail
                  => /\ resp'.status = 200
                     /\ resp'.out.code \in DOMAIN codes' \ DOMAIN codes
                     /\ resp'.out.code.uid
                          \in RowsOf(users', resp'.body.username,
                                     resp'.body.email)
                     /\ resp'.out.code.email = resp'.body.email]_vars

\* a repeated signup of an existing pair was answered 200
C7_Witness ==
    /\ resp.op = "signup"
    /\ resp.status = 200
    /\ \E c \in DOMAIN codes :
          /\ c.ts < resp.out.code.ts
          /\ c.uid = resp.out.code.uid
          /\ c.email = resp.out.code.email

\* C8: a code that has been exchanged for a token is refused from then on,
\* so no code mints a second token.
C8_CodeIsOneTime ==
    [][(/\ resp'.op = "token"
        /\ resp'.body.confirmation_code \in DOMAIN codes
        /\ codes[resp'.body.confirmation_code])
          => resp'.status # 200]_vars

\* the code verifies for the user: it was made from the user's current row
Verifies(u, code) == code.uid = u /\ code.email = users[u].email

C10_RoleOnlyByAdmin ==
    [][(\/ resp'.user = Anon
        \/ /\ resp'.user \in DOMAIN users
           /\ users[resp'.user].role # ADMIN
           /\ ~ users[resp'.user].is_superuser)
          => \A u \in DOMAIN users \cap DOMAIN users' :
                users'[u].role = users[u].role]_vars

\* a plain user's PATCH of /users/me/ asking for the admin role was answered
\* 200 and the user is still a plain user
C10_Witness ==
    /\ resp.op = "me_patch"
    /\ resp.status = 200
    /\ "role" \in DOMAIN resp.body
    /\ resp.body.role = ADMIN
    /\ users[resp.user].role = USER

----------------------------------------------------------------------------
(* Properties of ownership *)

\* C11: every review belongs to a title that exists and every comment to a
\* review that exists; a deletion of a title removes exactly the title, its
\* reviews and their comments; a deletion of a category removes no title
\* and changes only the category of the titles that had it, to null.
C11_OwnershipKept ==
    /\ [](\A r \in DOMAIN reviews : reviews[r].title \in DOMAIN titles)
    /\ [](\A c \in DOMAIN comments : comments[c].review \in DOMAIN reviews)
    /\ [][(resp'.op = "title_delete" /\ resp'.status = 204)
            => LET t == resp'.path[1]
                   gone == {r \in DOMAIN reviews : reviews[r].title = t}
               IN  /\ DOMAIN titles' = DOMAIN titles \ {t}
                   /\ DOMAIN reviews' = DOMAIN reviews \ gone
                   /\ DOMAIN comments'
                        = {c \in DOMAIN comments :
                              comments[c].review \notin gone}]_vars
    /\ [][(resp'.op = "category_delete" /\ resp'.status = 204)
            => /\ DOMAIN titles' = DOMAIN titles
               /\ \A t \in DOMAIN titles :
                     titles'[t] =
                        IF titles[t].category = resp'.path[1]
                        THEN [titles[t] EXCEPT !.category = "null"]
                        ELSE titles[t]
               /\ reviews' = reviews
               /\ comments' = comments]_vars

\* a title was deleted after reviews and comments were written and after
\* the category of the titles was deleted: no review is left and the title
\* that remains has no category
C11_Witness ==
    /\ resp.op = "title_delete"
    /\ resp.status = 204
    /\ nextId.review > 1
    /\ nextId.comment > 1
    /\ reviews = Empty
    /\ comments = Empty
    /\ \E t \in DOMAIN titles : titles[t].category = "null"

----------------------------------------------------------------------------
(* Properties of the comment routes *)

CommentOps ==
    {"comment_list", "comment_post", "comment_get", "comment_patch",
     "comment_delete"}

\* the step answers a comment request whose review is not a review of the
\* title in the path
Mismatch ==
    /\ resp'.op \in CommentOps
    /\ ~ (/\ resp'.path[2] \in DOMAIN reviews
          /\ reviews[resp'.path[2]].title = resp'.path[1])

\* C12 as stated: every comment request whose review_id is not a review of
\* title_id is answered 404 and changes nothing.
C12_MismatchIsNotFound ==
    [][Mismatch => resp'.status = 404 /\ comments' = comments]_vars

\* C12: a comment request whose review_id is not a review of title_id
\* changes nothing and is answered 404, unless it is turned away before the
\* review is resolved: 401 for an unauthenticated write, 400 for a POST
\* whose text is blank; a created comment belongs to the review of the
\* path, which is a review of the title of the path.
C12_CommentsResolveReview ==
    [][/\ Mismatch
            => /\ comments' = comments
               /\ reviews' = reviews
               /\ resp'.status =
                     IF /\ resp'.user = Anon
                        /\ resp'.op \in {"comment_post", "comment_patch",
                                          "comment_delete"}
                     THEN 401
                     ELSE IF resp'.op = "comment_post"
                             /\ resp'.body.text = ""
                     THEN 400
                     ELSE 404
       /\ (resp'.op = "comment_post" /\ resp'.status = 201)
            => LET new == DOMAIN comments' \ DOMAIN comments
               IN  /\ Cardinality(new) = 1
                   /\ \A c \in new :
                         /\ comments'[c].review = resp'.path[2]
                         /\ reviews[resp'.path[2]].title = resp'.path[1]
                   /\ \A c \in DOMAIN comments :
                         comments'[c] = comments[c]]_vars

\* the update of an existing comment, asked for under a title its review
\* does not belong to, was answered 404
C12_Witness ==
    /\ resp.op = "comment_patch"
    /\ resp.status = 404
    /\ resp.path[3] \in DOMAIN comments
    /\ resp.path[2] = comments[resp.path[3]].review
    /\ reviews[resp.path[2]].title # resp.path[1]

----------------------------------------------------------------------------
(* Properties of the methods *)

PutOps == {"title_put", "review_put", "comment_put"}

\* C13 as stated: a PUT of a title, a review or a comment is answered 405
\* whoever asks, and changes nothing.
C13_PutIsMethodNotAllowed ==
    [][resp'.op \in PutOps
         => /\ resp'.status = 405
            /\ titles' = titles
            /\ reviews' = reviews
            /\ comments' = comments]_vars

\* C13: a PUT of a title, a review or a comment changes nothing; it is
\* answered 405 to every requester who passes the permission of the view
\* (an admin or superuser for a title, any authenticated user for a review
\* or a comment), 401 to an unauthenticated requester and 403 to a user or
\* moderator for a title.
C13_PutNeverUpdates ==
    [][resp'.op \in PutOps
         => /\ titles' = titles
            /\ reviews' = reviews
            /\ comments' = comments
            /\ resp'.status =
                  IF resp'.user = Anon THEN 401
                  ELSE IF /\ resp'.op = "title_put"
                          /\ users[resp'.user].role # ADMIN
                          /\ ~ users[resp'.user].is_superuser
                  THEN 403
                  ELSE 405]_vars

\* the author of a review was answered 405 to a PUT of it
C13_Witness ==
    /\ resp.op = "review_put"
    /\ resp.status = 405
    /\ resp.path[2] \in DOMAIN reviews
    /\ reviews[resp.path[2]].author = resp.user
    /\ reviews[resp.path[2]].title = resp.path[1]

----------------------------------------------------------------------------
(* Properties of the score *)

InRange(x) == MIN_SCORE <= x /\ x <= MAX_SCORE

\* the step answers a POST or PATCH of a review that carries a score
ScoreWrite ==
    /\ resp'.op \in {"review_post", "review_patch"}
    /\ "score" \in DOMAIN resp'.body

\* the request gets as far as the validation of its fields: the requester
\* is authenticated and, for a PATCH, the review is there and is the
\* requester's own
ReachesValidation ==
    /\ resp'.user # Anon
    /\ resp'.op = "review_patch"
          => /\ ReviewFound(resp'.path[1], resp'.path[2])
             /\ reviews[resp'.path[2]].author = resp'.user

\* C14: every stored score lies in [MIN_SCORE, MAX_SCORE]; a POST or PATCH
\* of a review with a score outside the range stores nothing and, when it
\* gets as far as validation, is answered 400 on score; with a score in the
\* range (the bounds included) it is never refused on score, and is stored
\* as sent by a POST on an existing title not yet reviewed by the requester
\* and by a PATCH of the requester's own review.
C14_ScoreInRange ==
    /\ [](\A r \in DOMAIN reviews : InRange(reviews[r].score))
    /\ [][(ScoreWrite /\ ~ InRange(resp'.body.score))
            => /\ reviews' = reviews
               /\ resp'.status \notin {200, 201}
               /\ ReachesValidation
                    => resp'.status = 400 /\ resp'.out = "score"]_vars
    /\ [][(ScoreWrite /\ InRange(resp'.body.score) /\ ReachesValidation)
            => /\ ~ (resp'.status = 400 /\ resp'.out = "score")
               /\ (/\ resp'.op = "review_post"
                   /\ resp'.path[1] \in DOMAIN titles
                   /\ UniqueReview(resp'.path[1], resp'.user))
                    => /\ resp'.status = 201
                       /\ \E r \in DOMAIN reviews' \ DOMAIN reviews :
                             reviews'[r].score = resp'.body.score
               /\ resp'.op = "review_patch"
                    => /\ resp'.status = 200
                       /\ reviews'[resp'.path[2]].score
                            = resp'.body.score]_vars

\* a review stored with the lowest score was raised to the highest by its
\* author, and a score above the highest was refused
C14_Witness ==
    /\ resp.op = "review_patch"
    /\ resp.status = 400
    /\ resp.out = "score"
    /\ resp.body.score = MAX_SCORE + 1
    /\ resp.path[2] \in DOMAIN reviews
    /\ reviews[resp.path[2]].score = MAX_SCORE
    /\ \E r \in DOMAIN reviews : reviews[r].score = MIN_SCORE

----------------------------------------------------------------------------
(* Properties of the title references *)

\* C15: a title POST of an admin with a valid year is accepted exactly when
\* genre is a non-empty set of slugs of existing genres and category is the
\* slug of an existing category or is left out; otherwise it is answered
\* 400.
C15_TitleRefsAccepted ==
    [][(/\ resp'.op = "title_post"
        /\ resp'.user # Anon
        /\ is_admin(resp'.user)
        /\ validate_year(resp'.body.year))
          => LET b == resp'.body
                 genreOk == /\ "genre" \in DOMAIN b
                            /\ b.genre # {}
                            /\ b.genre \subseteq Slugs(genres)
                 categoryOk == \/ "category" \notin DOMAIN b
                               \/ b.category \in Slugs(categories)
             IN  IF genreOk /\ categoryOk
                 THEN resp'.status = 201
                 ELSE resp'.status = 400 /\ titles' = titles]_vars

----------------------------------------------------------------------------
(* Properties of the rows signup creates *)

\* C16: a user row created by a signup is created inactive.
C16_SignupCreatesInactive ==
    [][resp'.op = "signup"
         => \A u \in DOMAIN users' \ DOMAIN users :
               ~ users'[u].is_active]_vars

----------------------------------------------------------------------------
(* Properties of the import *)

\* C17: an import run that follows a completed run on the same files, with
\* nothing in between, completes and leaves every table as it was.
C17_ImportIdempotent ==
    [][(/\ resp.op = "import_csv"
        /\ resp.status = 0
        /\ resp'.op = "import_csv"
        /\ resp'.body = resp.body)
          => /\ resp'.status = 0
             /\ users' = users
             /\ categories' = categories
             /\ genres' = genres
             /\ titles' = titles
             /\ reviews' = reviews
             /\ comments' = comments]_vars

----------------------------------------------------------------------------
(* Properties of the signup errors *)

\* the step answers a signup that passed validation and whose save raised
SaveFailed ==
    /\ resp'.op = "signup"
    /\ SignupSerializer_validate(resp'.body.username, resp'.body.email) = Ok
    /\ resp'.out.raised # "-"

----------------------------------------------------------------------------
(* Properties of the permission classes *)

PermissionCalls ==
    {"IsAdmin", "IsAdminUserOrReadOnly", "AdminModeratorAuthorPermission"}

----------------------------------------------------------------------------
(* Properties of authorship *)

\* the review or comment rows a step leaves with the author, the parent and
\* the pub_date they had
Kept(old, new, parent) ==
    \A k \in DOMAIN old :
        /\ k \in DOMAIN new
        /\ new[k].author = old[k].author
        /\ new[k][parent] = old[k][parent]
        /\ new[k].pub_date = old[k].pub_date

\* the rows a step adds all have this author
AddedBy(old, new, u) ==
    /\ DOMAIN new # DOMAIN old
    /\ \A k \in DOMAIN new \ DOMAIN old : new[k].author = u

\* C20: a created review or comment has the requester as its author,
\* whatever the body says, and a PATCH, whoever sends it and whatever its
\* body, leaves the author, the parent and the pub_date of every review and
\* comment as they were.
C20_AuthorFromRequest ==
    [][/\ (resp'.op = "review_post" /\ resp'.status = 201
            => AddedBy(reviews, reviews', resp'.user))
       /\ (resp'.op = "comment_post" /\ resp'.status = 201
            => AddedBy(comments, comments', resp'.user))
       /\ (resp'.op \in {"review_patch", "comment_patch"}
            => /\ Kept(reviews, reviews', "title")
               /\ Kept(comments, comments', "review"))]_vars

\* a moderator's PATCH that names another author, title and pub_date has
\* been applied to the first user's review
C20_Witness ==
    /\ resp.op = "review_patch"
    /\ resp.status = 200
    /\ resp.user = 3
    /\ resp.body = [text |-> "c"] @@ ForgedReview
    /\ resp.path[2] \in DOMAIN reviews
    /\ reviews[resp.path[2]].text = "c"
    /\ reviews[resp.path[2]].author = 1
    /\ resp.body.author # reviews[resp.path[2]].author

----------------------------------------------------------------------------
(* Properties of concurrent signups *)

\* C21: however the two steps of concurrent signups interleave, no two user
\* rows share a username and no two share an e-mail, and a signup answered
\* 200 (the second of two concurrent ones for the same name and e-mail
\* included) leaves exactly one row of that name and e-mail.
C21_SignupRaceKeepsUnique ==
    /\ [](\A u1, u2 \in DOMAIN users :
            u1 # u2 => /\ users[u1].username # users[u2].username
                       /\ users[u1].email # users[u2].email)
    /\ [][resp'.op = "signup_post" /\ resp'.status = 200
            => Cardinality(RowsOf(users', resp'.body.username,
                                  resp'.body.email)) = 1]_vars

\* two signups for the same name and e-mail were both validated before the
\* row existed, and both have been answered 200
C21_Witness ==
    /\ resp.op = "signup_post"
    /\ resp.status = 200
    /\ resp.body.fresh
    /\ pend = EmptyBag
    /\ Cardinality(DOMAIN codes) = 2
    /\ \A c \in DOMAIN codes : c.email = resp.body.email
    /\ Cardinality(RowsOf(users, resp.body.username, resp.body.email)) = 1

====
